---- MODULE Spec2Model ----
(***************************************************************************)
(* Weekly recap generator (generate_recap.py): main() fetches the league   *)
(* from the Sleeper API, compute_core aggregates the weekly matchup        *)
(* records, the statistics functions derive all-play %, SOS, expected wins *)
(* and luck, picks_and_pans selects the closest / most lopsided game of    *)
(* each week, and write_pdf emits the document.                            *)
(*                                                                         *)
(* Scores are whole points (float(m["points"]) of an integral JSON number  *)
(* is that number); quotients are kept as exact fractions <<num, den>>.    *)
(***************************************************************************)
EXTENDS Integers, Sequences, FiniteSets, TLC

\* ------------------------------------------------------------------ bounds
\* Matchup records summed over all the weeks one run fetches.
MaxRecords == 4

\* Weekly score snapshots handed to compute_all_play on its own.
MaxSnapshots == 2

\* ----------------------------------------------------------- input domains
RosterIds == {1, 2}
MatchupIds == {1, 2}
Points == {1, 2}
StartWeeks == {1}
LastScoredLegs == {0, 1, 2}

\* One matchup record of the matchups endpoint.
MatchupRecords == [matchup_id : MatchupIds, roster_id : RosterIds, points : Points]

\* The users endpoint: user_id -> metadata.team_name ("" when absent) and display_name.
\* In the first league two team names collide once stripped; in the second the
\* first user has no team name and the owner of the second roster is no user.
UsersResponses ==
    { (11 :> [team_name |-> "A", display_name |-> "u11"]) @@
      (12 :> [team_name |-> "A ", display_name |-> "u12"]),
      (11 :> [team_name |-> "", display_name |-> " B"]) }

\* The rosters endpoint: roster_id -> owner_id.
RostersResponses == { (1 :> 11) @@ (2 :> 12) }

\* Teams of the score snapshots handed to compute_all_play on its own.
SnapshotTeams == {"A", "B", "C"}
Snapshots == UNION {[S -> Points] : S \in SUBSET SnapshotTeams}

\* Outcome of one HTTP request.
Outcomes == {"ok", "timeout", "http_error"}

\* --------------------------------------------------------- exact fractions
Frac(n, d) == <<n, d>>
FAdd(x, y) == <<x[1] * y[2] + y[1] * x[2], x[2] * y[2]>>
FScale(x, k) == <<x[1] * k, x[2]>>
FDivInt(x, k) == <<x[1], x[2] * k>>
FEq(x, y) == x[1] * y[2] = y[1] * x[2]
FLe(x, y) == x[1] * y[2] <= y[1] * x[2]
FLt(x, y) == x[1] * y[2] < y[1] * x[2]

Pow10(k) == IF k = 2 THEN 100 ELSE IF k = 3 THEN 1000 ELSE 1

\* round(x, k) and f"{x:.2f}": the nearest multiple of 10^-k, returned as the
\* integer number of such multiples (ties to even).
Round(x, k) ==
    LET n == x[1] * Pow10(k)
        d == x[2]
        q == (2 * n + d) \div (2 * d)
    IN  IF (2 * n + d) % (2 * d) = 0 /\ q % 2 = 1 THEN q - 1 ELSE q

Abs(x) == IF x < 0 THEN -x ELSE x

RECURSIVE SumSeq(_)
SumSeq(s) == IF s = <<>> THEN 0 ELSE Head(s) + SumSeq(Tail(s))

RECURSIVE SumOver(_, _)
SumOver(f, S) ==
    IF S = {} THEN 0
    ELSE LET t == CHOOSE t \in S : TRUE IN f[t] + SumOver(f, S \ {t})

\* ---------------------------------------------------------------- get
\* A response returned whatever its status, and a timeout swallowed.
get_IgnoresFailure(outcome) == TRUE

\* get(url): raise_for_status / the 30 s timeout raise, otherwise the JSON.
get(outcome) == outcome = "ok"

\* -------------------------------------------------------------- load_data
RECURSIVE Strip(_)
Strip(s) ==
    IF Len(s) = 0 THEN s
    ELSE IF SubSeq(s, 1, 1) = " " THEN Strip(SubSeq(s, 2, Len(s)))
    ELSE IF SubSeq(s, Len(s), Len(s)) = " " THEN Strip(SubSeq(s, 1, Len(s) - 1))
    ELSE s

RosterLabel(rid) == "Roster " \o ToString(rid)

OwnerToTeam(us) ==
    [u \in DOMAIN us |->
        IF us[u].team_name # "" THEN Strip(us[u].team_name) ELSE Strip(us[u].display_name)]

RosterToTeam(us, rs) ==
    [rid \in DOMAIN rs |->
        IF rs[rid] \in DOMAIN us THEN OwnerToTeam(us)[rs[rid]] ELSE RosterLabel(rid)]

\* list(range(start_week, last_scored + 1))
WeekRange(start, last) == [i \in 1..(IF last >= start THEN last - start + 1 ELSE 0) |-> start + i - 1]

\* ------------------------------------------------------------ compute_core
\* roster_to_team.get(rid, f"Roster {rid}")
TeamOf(r2t, rid) == IF rid \in DOMAIN r2t THEN r2t[rid] ELSE RosterLabel(rid)

\* The seven results of compute_core; keys is the insertion order of pf's keys.
EmptyCore ==
    [pf |-> <<>>, pa |-> <<>>, w |-> <<>>, l |-> <<>>, gp |-> <<>>,
     weekly_games |-> <<>>, weekly_scores |-> <<>>, keys |-> <<>>]

add_team(acc, t) ==
    IF t \in DOMAIN acc.pf THEN acc
    ELSE [acc EXCEPT !.pf = (t :> 0) @@ @, !.pa = (t :> 0) @@ @,
                     !.w = (t :> 0) @@ @, !.l = (t :> 0) @@ @, !.gp = (t :> 0) @@ @,
                     !.keys = Append(@, t)]

\* weekly_scores[week][t] = float(m["points"]) for the first i records of g.
RECURSIVE WeekScores(_, _, _)
WeekScores(r2t, g, i) ==
    IF i = 0 THEN <<>>
    ELSE (TeamOf(r2t, g[i].roster_id) :> g[i].points) @@ WeekScores(r2t, g, i - 1)

\* Keys of by_mid in insertion order, over the first i records of g.
RECURSIVE MidOrder(_, _)
MidOrder(g, i) ==
    IF i = 0 THEN <<>>
    ELSE LET prev == MidOrder(g, i - 1)
         IN  IF \E j \in 1..Len(prev) : prev[j] = g[i].matchup_id
             THEN prev ELSE Append(prev, g[i].matchup_id)

\* by_mid[mid]
Group(g, mid) == SelectSeq(g, LAMBDA m : m.matchup_id = mid)

\* A tie awarded to the first record instead of the second.
Winner_TieToFirst(ta, sa, tb, sb) == IF sa >= sb THEN ta ELSE tb

Winner(ta, sa, tb, sb) == IF sa > sb THEN ta ELSE tb

WeeklyGame(ta, sa, tb, sb) ==
    [ta |-> ta, sa |-> sa, tb |-> tb, sb |-> sb,
     margin |-> Abs(sa - sb), winner |-> Winner(ta, sa, tb, sb)]

Bump(f, t, x) == [f EXCEPT ![t] = @ + x]

\* A tie credited to neither team.
Credit_TieUncredited(acc, ta, sa, tb, sb) ==
    IF sa > sb THEN [acc EXCEPT !.w = Bump(@, ta, 1), !.l = Bump(@, tb, 1)]
    ELSE IF sb > sa THEN [acc EXCEPT !.w = Bump(@, tb, 1), !.l = Bump(@, ta, 1)]
    ELSE acc

\* Lines 83-87: the win and the loss of one pair.
Credit(acc, ta, sa, tb, sb) ==
    IF Winner(ta, sa, tb, sb) = ta
    THEN [acc EXCEPT !.w = Bump(@, ta, 1), !.l = Bump(@, tb, 1)]
    ELSE [acc EXCEPT !.w = Bump(@, tb, 1), !.l = Bump(@, ta, 1)]

\* Points against credited with the team's own score.
Score_OwnScoreAgainst(acc, ta, sa, tb, sb) ==
    [acc EXCEPT !.pf = Bump(Bump(@, ta, sa), tb, sb),
                !.pa = Bump(Bump(@, ta, sa), tb, sb)]

\* Lines 79-80: points for and against of one pair.
Score(acc, ta, sa, tb, sb) ==
    [acc EXCEPT !.pf = Bump(Bump(@, ta, sa), tb, sb),
                !.pa = Bump(Bump(@, ta, sb), tb, sa)]

\* A group of more than two records paired by its first two.
ProcessGroup_AtLeastTwo(r2t, acc, week, pair) ==
    IF Len(pair) < 2 THEN acc
    ELSE LET ta == TeamOf(r2t, pair[1].roster_id)
             tb == TeamOf(r2t, pair[2].roster_id)
             sa == pair[1].points
             sb == pair[2].points
             a1 == add_team(add_team(acc, ta), tb)
             a2 == Score(a1, ta, sa, tb, sb)
             a3 == [a2 EXCEPT !.gp = Bump(Bump(@, ta, 1), tb, 1)]
             a4 == Credit(a3, ta, sa, tb, sb)
         IN  [a4 EXCEPT !.weekly_games[week] = Append(@, WeeklyGame(ta, sa, tb, sb))]

\* Body of the loop over by_mid.items() for one group.
ProcessGroup(r2t, acc, week, pair) ==
    IF Len(pair) # 2 THEN acc
    ELSE LET a == pair[1]
             b == pair[2]
             ta == TeamOf(r2t, a.roster_id)
             tb == TeamOf(r2t, b.roster_id)
             sa == a.points
             sb == b.points
             a1 == add_team(add_team(acc, ta), tb)
             a2 == Score(a1, ta, sa, tb, sb)
             a3 == [a2 EXCEPT !.gp = Bump(Bump(@, ta, 1), tb, 1)]
             a4 == Credit(a3, ta, sa, tb, sb)
         IN  [a4 EXCEPT !.weekly_games[week] = Append(@, WeeklyGame(ta, sa, tb, sb))]

RECURSIVE ProcessGroups(_, _, _, _, _, _)
ProcessGroups(r2t, acc, week, g, mids, i) ==
    IF i = 0 THEN acc
    ELSE ProcessGroup(r2t, ProcessGroups(r2t, acc, week, g, mids, i - 1), week,
                      Group(g, mids[i]))

\* add_team called for every record of the week, paired or not.
RECURSIVE AddTeams(_, _, _, _)
AddTeams(r2t, acc, g, i) ==
    IF i = 0 THEN acc ELSE add_team(AddTeams(r2t, acc, g, i - 1), TeamOf(r2t, g[i].roster_id))

ProcessWeek_AddsEveryTeam(r2t, acc, week, g) ==
    LET a0 == [AddTeams(r2t, acc, g, Len(g))
                  EXCEPT !.weekly_games = (week :> <<>>) @@ @,
                         !.weekly_scores = (week :> WeekScores(r2t, g, Len(g))) @@ @]
        mids == MidOrder(g, Len(g))
    IN  ProcessGroups(r2t, a0, week, g, mids, Len(mids))

\* Body of the loop over weeks for one week.
ProcessWeek(r2t, acc, week, g) ==
    LET a0 == [acc EXCEPT !.weekly_games = (week :> <<>>) @@ @,
                          !.weekly_scores = (week :> WeekScores(r2t, g, Len(g))) @@ @]
        mids == MidOrder(g, Len(g))
    IN  ProcessGroups(r2t, a0, week, g, mids, Len(mids))

\* compute_core after the first k weeks of the loop.
RECURSIVE CoreUpTo(_, _, _, _)
CoreUpTo(r2t, wks, wd, k) ==
    IF k = 0 THEN EmptyCore
    ELSE ProcessWeek(r2t, CoreUpTo(r2t, wks, wd, k - 1), wks[k], wd[wks[k]])

compute_core(r2t, wks, wd) == CoreUpTo(r2t, wks, wd, Len(wks))

\* -------------------------------------------------------- compute_all_play
\* The weeks of a dict keyed by week number, in insertion (ascending) order.
RECURSIVE WeekKeys(_)
WeekKeys(S) ==
    IF S = {} THEN <<>>
    ELSE LET m == CHOOSE x \in S : \A y \in S : x <= y IN <<m>> \o WeekKeys(S \ {m})

\* An equal score counted as a win.
WinsVs_TiesCount(scores, t) == Cardinality({o \in DOMAIN scores \ {t} : scores[t] >= scores[o]})

\* sum(1 for other in teams if other != t and s > scores[other])
WinsVs(scores, t) == Cardinality({o \in DOMAIN scores \ {t} : scores[t] > scores[o]})

\* Body of the loop over weekly_scores.values() for one snapshot.
AllPlayWeek(ap, scores) ==
    LET teams == DOMAIN scores
        n == Cardinality(teams)
    IN  IF n <= 1 THEN ap
        ELSE [ap_wins |->
                 [t \in DOMAIN ap.ap_wins \cup teams |->
                    IF t \in teams
                    THEN FAdd(IF t \in DOMAIN ap.ap_wins THEN ap.ap_wins[t] ELSE Frac(0, 1),
                              Frac(WinsVs(scores, t), n - 1))
                    ELSE ap.ap_wins[t]],
              ap_weeks |->
                 [t \in DOMAIN ap.ap_weeks \cup teams |->
                    IF t \in teams
                    THEN (IF t \in DOMAIN ap.ap_weeks THEN ap.ap_weeks[t] ELSE 0) + 1
                    ELSE ap.ap_weeks[t]]]

RECURSIVE AllPlayUpTo(_, _, _)
AllPlayUpTo(ws, ks, i) ==
    IF i = 0 THEN [ap_wins |-> <<>>, ap_weeks |-> <<>>]
    ELSE AllPlayWeek(AllPlayUpTo(ws, ks, i - 1), ws[ks[i]])

compute_all_play(ws) ==
    LET ks == WeekKeys(DOMAIN ws)
        ap == AllPlayUpTo(ws, ks, Len(ks))
    IN  [t \in DOMAIN ap.ap_wins |-> FDivInt(ap.ap_wins[t], ap.ap_weeks[t])]

\* ----------------------------------------------------- build_sos_luck_rows
\* The games of a team read from its wins.
TeamStats_GamesFromWins(c, allplay, t) ==
    LET games == IF c.w[t] # 0 THEN c.w[t] ELSE 1
        sos == Frac(c.pa[t], games)
        ap == IF t \in DOMAIN allplay THEN allplay[t] ELSE Frac(0, 1)
        exp_w == FScale(ap, games)
        luck == FAdd(Frac(c.w[t], 1), Frac(-exp_w[1], exp_w[2]))
    IN  [games |-> games, sos |-> sos, ap |-> ap, exp_w |-> exp_w, luck |-> luck]

\* Lines 120-124: the values computed for one team.
TeamStats(c, allplay, t) ==
    LET games == IF c.gp[t] # 0 THEN c.gp[t] ELSE 1
        sos == Frac(c.pa[t], games)
        ap == IF t \in DOMAIN allplay THEN allplay[t] ELSE Frac(0, 1)
        exp_w == FScale(ap, games)
        luck == FAdd(Frac(c.w[t], 1), Frac(-exp_w[1], exp_w[2]))
    IN  [games |-> games, sos |-> sos, ap |-> ap, exp_w |-> exp_w, luck |-> luck]

\* Lines 128-133: the band of the luck badge and the luck printed with two decimals.
Badge(luck) ==
    [band |-> IF FLt(Frac(1, 2), luck) THEN "green"
              ELSE IF FLt(luck, Frac(-1, 2)) THEN "red" ELSE "gray",
     luck |-> Round(luck, 2)]

\* Lines 136-138: one row; rounded values are counted in hundredths (thousandths for ap).
Row(c, allplay, t) ==
    LET st == TeamStats(c, allplay, t)
    IN  [team |-> t, w |-> c.w[t], l |-> c.l[t],
         pf |-> Round(Frac(c.pf[t], 1), 2), pa |-> Round(Frac(c.pa[t], 1), 2),
         sos |-> Round(st.sos, 2), ap |-> Round(st.ap, 3), exp_w |-> Round(st.exp_w, 2),
         badge |-> Badge(st.luck)]

\* rows.sort(key=lambda r: r[3], reverse=True): stable, descending by PF.
RECURSIVE SortByPF(_)
SortByPF(rows) ==
    IF Len(rows) <= 1 THEN rows
    ELSE LET rest == SortByPF(SubSeq(rows, 1, Len(rows) - 1))
             r == rows[Len(rows)]
             k == Cardinality({i \in 1..Len(rest) : rest[i].pf >= r.pf})
         IN  SubSeq(rest, 1, k) \o <<r>> \o SubSeq(rest, k + 1, Len(rest))

SumFrac(xs) ==
    LET F[i \in 0..Len(xs)] == IF i = 0 THEN Frac(0, 1) ELSE FAdd(F[i - 1], xs[i])
    IN  F[Len(xs)]

\* mean(sos_vals) if sos_vals else 0.0
AvgSos(c, allplay) ==
    LET sos_vals == [i \in 1..Len(c.keys) |-> TeamStats(c, allplay, c.keys[i]).sos]
    IN  IF Len(sos_vals) = 0 THEN Frac(0, 1) ELSE FDivInt(SumFrac(sos_vals), Len(sos_vals))

build_sos_luck_rows(c, allplay) ==
    Append(SortByPF([i \in 1..Len(c.keys) |-> Row(c, allplay, c.keys[i])]),
           [team |-> "League Avg", sos |-> Round(AvgSos(c, allplay), 2)])

\* ---------------------------------------------------------- picks_and_pans
\* The first game of the week taken for the closest one.
MinGame_First(games) == games[1]

\* min(games, key=lambda g: g[4]) / max(...): the first game with the extreme margin.
MinGame(games) ==
    games[CHOOSE i \in 1..Len(games) :
            /\ \A j \in 1..Len(games) : games[i].margin <= games[j].margin
            /\ \A j \in 1..(i - 1) : games[j].margin > games[i].margin]

MaxGame(games) ==
    games[CHOOSE i \in 1..Len(games) :
            /\ \A j \in 1..Len(games) : games[i].margin >= games[j].margin
            /\ \A j \in 1..(i - 1) : games[j].margin < games[i].margin]

RECURSIVE PicksUpTo(_, _, _)
PicksUpTo(wg, ks, i) ==
    IF i = 0 THEN [closest |-> <<>>, blowouts |-> <<>>]
    ELSE LET prev == PicksUpTo(wg, ks, i - 1)
             games == wg[ks[i]]
         IN  IF games = <<>> THEN prev
             ELSE [closest |-> Append(prev.closest, <<ks[i], MinGame(games)>>),
                   blowouts |-> Append(prev.blowouts, <<ks[i], MaxGame(games)>>)]

picks_and_pans(wg) ==
    LET ks == WeekKeys(DOMAIN wg) IN PicksUpTo(wg, ks, Len(ks))

\* ------------------------------------------------------------------- state
VARIABLES
    pc,              \* position of main()
    requests,        \* the requests issued so far: [url, outcome]
    league,          \* settings of the league response
    users,           \* users response
    roster_to_team,
    weeks,
    weeks_data,
    core,            \* pf, pa, w, l, gp, weekly_games, weekly_scores
    allplay_pct,
    team_stats,      \* games, sos, ap, exp_w, luck of build_sos_luck_rows, per team
    sos_luck_rows,
    picks,           \* closest, blowouts
    documents        \* files written

vars == <<pc, requests, league, users, roster_to_team, weeks, weeks_data, core,
          allplay_pct, team_stats, sos_luck_rows, picks, documents>>

loaded == <<league, users, roster_to_team, weeks, weeks_data>>
computed == <<core, allplay_pct, team_stats, sos_luck_rows, picks>>

NoValue == <<>>

Init ==
    /\ pc = "league"
    /\ requests = <<>>
    /\ league = NoValue
    /\ users = NoValue
    /\ roster_to_team = NoValue
    /\ weeks = <<>>
    /\ weeks_data = <<>>
    /\ core = EmptyCore
    /\ allplay_pct = NoValue
    /\ team_stats = NoValue
    /\ sos_luck_rows = NoValue
    /\ picks = NoValue
    /\ documents = {}

\* The locals of main() and load_data() no longer exist once main() is left.
Discard ==
    /\ league' = NoValue
    /\ users' = NoValue
    /\ roster_to_team' = NoValue
    /\ weeks' = <<>>
    /\ weeks_data' = <<>>
    /\ core' = EmptyCore
    /\ allplay_pct' = NoValue
    /\ team_stats' = NoValue
    /\ sos_luck_rows' = NoValue
    /\ picks' = NoValue

\* An uncaught exception leaves main(): nothing else of the run executes.
Abort ==
    /\ pc' = "aborted"
    /\ Discard
    /\ UNCHANGED documents

FetchLeague ==
    /\ pc = "league"
    /\ \E o \in Outcomes :
        /\ requests' = Append(requests, [url |-> <<"league">>, outcome |-> o])
        /\ IF get(o)
           THEN \E s \in StartWeeks, e \in LastScoredLegs :
                    /\ league' = [start_week |-> s, last_scored_leg |-> e]
                    /\ pc' = "users"
                    /\ UNCHANGED <<users, roster_to_team, weeks, weeks_data, computed, documents>>
           ELSE Abort

FetchUsers ==
    /\ pc = "users"
    /\ \E o \in Outcomes :
        /\ requests' = Append(requests, [url |-> <<"users">>, outcome |-> o])
        /\ IF get(o)
           THEN \E us \in UsersResponses :
                    /\ users' = us
                    /\ pc' = "rosters"
                    /\ UNCHANGED <<league, roster_to_team, weeks, weeks_data, computed, documents>>
           ELSE Abort

FetchRosters ==
    /\ pc = "rosters"
    /\ \E o \in Outcomes :
        /\ requests' = Append(requests, [url |-> <<"rosters">>, outcome |-> o])
        /\ IF get(o)
           THEN \E rs \in RostersResponses :
                    /\ weeks' = WeekRange(league.start_week, league.last_scored_leg)
                    /\ roster_to_team' = RosterToTeam(users, rs)
                    /\ pc' = "matchups"
                    /\ UNCHANGED <<league, users, weeks_data, computed, documents>>
           ELSE Abort

FetchedRecords == SumSeq([i \in 1..Len(weeks) |->
                    IF weeks[i] \in DOMAIN weeks_data THEN Len(weeks_data[weeks[i]]) ELSE 0])

SeqsUpTo(S, n) == UNION {[1..k -> S] : k \in 0..n}

\* One iteration of the comprehension of line 44.
FetchMatchups ==
    /\ pc = "matchups"
    /\ Cardinality(DOMAIN weeks_data) < Len(weeks)
    /\ LET week == weeks[Cardinality(DOMAIN weeks_data) + 1] IN
       \E o \in Outcomes :
        /\ requests' = Append(requests, [url |-> <<"matchups", week>>, outcome |-> o])
        /\ IF get(o)
           THEN \E g \in SeqsUpTo(MatchupRecords, MaxRecords - FetchedRecords) :
                    /\ weeks_data' = (week :> g) @@ weeks_data
                    /\ UNCHANGED <<pc, league, users, roster_to_team, weeks, computed, documents>>
           ELSE Abort

\* Lines 316-332 of main(): the aggregation, the statistics and the selections.
Compute ==
    /\ pc = "matchups"
    /\ Cardinality(DOMAIN weeks_data) = Len(weeks)
    /\ core' = compute_core(roster_to_team, weeks, weeks_data)
    /\ allplay_pct' = compute_all_play(core'.weekly_scores)
    /\ team_stats' = [t \in DOMAIN core'.pf |-> TeamStats(core', allplay_pct', t)]
    /\ sos_luck_rows' = build_sos_luck_rows(core', allplay_pct')
    /\ picks' = picks_and_pans(core'.weekly_games)
    /\ pc' = "write"
    /\ UNCHANGED <<requests, loaded, documents>>

\* Lines 334-340 of main(): min(weeks) raises on an empty list, else the PDF
\* named after the first and the last week is built and main() returns.
WritePdf ==
    /\ pc = "write"
    /\ IF weeks = <<>>
       THEN Abort
       ELSE /\ documents' = documents \cup {<<weeks[1], weeks[Len(weeks)]>>}
            /\ pc' = "done"
            /\ Discard
    /\ UNCHANGED requests

\* ================================================================ claims
\* The state main() is in once compute_core and the statistics have run.
Aggregated == pc = "write"

Teams == DOMAIN core.pf

\* The records of one fetched week.
RecordsOf(week) == weeks_data[week]

\* Index pairs <<i, j>>, i < j, of the records that are the only two of their group.
PairPositions(g) ==
    {ij \in (1..Len(g)) \X (1..Len(g)) :
        /\ ij[1] < ij[2]
        /\ g[ij[1]].matchup_id = g[ij[2]].matchup_id
        /\ \A x \in 1..Len(g) : g[x].matchup_id = g[ij[1]].matchup_id => x \in {ij[1], ij[2]}}

\* The valid pairs of one week: records a and b, in list order, and their teams.
PairsOfWeek(week) ==
    LET g == RecordsOf(week) IN
    {[week |-> week, i |-> ij[1],
      ta |-> TeamOf(roster_to_team, g[ij[1]].roster_id), sa |-> g[ij[1]].points,
      tb |-> TeamOf(roster_to_team, g[ij[2]].roster_id), sb |-> g[ij[2]].points] :
        ij \in PairPositions(g)}

\* The valid pairs of the run.
ValidPairs == UNION {PairsOfWeek(week) : week \in DOMAIN weeks_data}

\* Teams with a record in a week, and teams of a valid pair of that week.
TeamsIn(week) ==
    {TeamOf(roster_to_team, RecordsOf(week)[i].roster_id) : i \in 1..Len(RecordsOf(week))}
TeamsPaired(week) == UNION {{p.ta, p.tb} : p \in PairsOfWeek(week)}

SumSet(S, F(_)) == SumOver([x \in S |-> F(x)], S)

\* ---------------------------------------------------------------------- C1
\* C1: after compute_core has processed the weeks, every team of the cumulative
\* totals has wins + losses = games played, ties and idle weeks included.
C1_WinsPlusLossesIsGamesPlayed ==
    Aggregated =>
        /\ DOMAIN core.w = Teams /\ DOMAIN core.l = Teams /\ DOMAIN core.gp = Teams
        /\ \A t \in Teams : core.w[t] + core.l[t] = core.gp[t]

\* A team that tied one week and had a record but no valid pair in another week.
C1_Witness ==
    /\ Aggregated
    /\ \E p \in ValidPairs, week \in DOMAIN weeks_data :
        /\ p.sa = p.sb
        /\ p.ta # p.tb
        /\ week # p.week
        /\ p.ta \in TeamsIn(week) \ TeamsPaired(week)

\* ---------------------------------------------------------------------- C2
PointsFor(p, t) == (IF p.ta = t THEN p.sa ELSE 0) + (IF p.tb = t THEN p.sb ELSE 0)
PointsAgainst(p, t) == (IF p.ta = t THEN p.sb ELSE 0) + (IF p.tb = t THEN p.sa ELSE 0)

\* C2: each valid pair (a, b) adds scoreA to PF[a], scoreB to PF[b], scoreB to
\* PA[a] and scoreA to PA[b]; the pair contributes scoreA + scoreB points-for, and
\* league-wide the points-for sum to the points-against.
C2_PointsConserved ==
    Aggregated =>
        \A vp \in {ValidPairs} :
        /\ \A t \in Teams :
            /\ core.pf[t] = SumSet(vp, LAMBDA p : PointsFor(p, t))
            /\ core.pa[t] = SumSet(vp, LAMBDA p : PointsAgainst(p, t))
        /\ SumOver(core.pf, Teams) = SumSet(vp, LAMBDA p : p.sa + p.sb)
        /\ SumOver(core.pf, Teams) = SumOver(core.pa, Teams)

\* Two weeks with a valid pair each, and a team whose points for and against differ.
C2_Witness ==
    /\ Aggregated
    /\ \E p, q \in ValidPairs : p.week # q.week
    /\ \E t \in Teams : core.gp[t] = 2 /\ core.pf[t] # core.pa[t]

\* --------------------------------------------------------------------- C10
\* The game recorded for a valid pair: the games of a week follow the first
\* appearance of their matchup ids.
GameOf(vp, p) ==
    core.weekly_games[p.week][Cardinality({q \in vp : q.week = p.week /\ q.i < p.i}) + 1]

WinSide(p) == IF p.sa > p.sb THEN p.ta ELSE p.tb
LossSide(p) == IF p.sa > p.sb THEN p.tb ELSE p.ta

\* C10: the recorded winner of a valid pair is the team with the strictly greater
\* score, a tie is won by the second record's team b and lost by a, and the
\* margin is the absolute score difference.
C10_WinnerAndMargin ==
    Aggregated =>
        \A vp \in {ValidPairs} :
        /\ \A p \in vp :
            \A gm \in {GameOf(vp, p)} :
            /\ gm.ta = p.ta /\ gm.tb = p.tb /\ gm.sa = p.sa /\ gm.sb = p.sb
            /\ gm.sa > gm.sb => gm.winner = gm.ta
            /\ gm.sb > gm.sa => gm.winner = gm.tb
            /\ gm.sa = gm.sb => gm.winner = gm.tb /\ gm.margin = 0
            /\ gm.margin >= 0 /\ (gm.margin = gm.sa - gm.sb \/ gm.margin = gm.sb - gm.sa)
        /\ \A t \in Teams :
            /\ core.w[t] = Cardinality({p \in vp : WinSide(p) = t})
            /\ core.l[t] = Cardinality({p \in vp : LossSide(p) = t})

\* A tie between two different teams, and a decided game, in one run.
C10_Witness ==
    /\ Aggregated
    /\ \E p, q \in ValidPairs :
        /\ p.sa = p.sb /\ p.ta # p.tb
        /\ core.w[p.tb] >= 1 /\ core.l[p.ta] >= 1
        /\ q.sa > q.sb

\* ---------------------------------------------------------------------- C3
\* Times a team is a side of a game of one week's weekly_games list.
Appearances(week, t) ==
    LET games == core.weekly_games[week] IN
    SumSeq([n \in 1..Len(games) |->
              (IF games[n].ta = t THEN 1 ELSE 0) + (IF games[n].tb = t THEN 1 ELSE 0)])

\* The cumulative totals of a team in a result of compute_core.
Totals(c, t) ==
    IF t \in DOMAIN c.pf THEN <<c.pf[t], c.pa[t], c.w[t], c.l[t], c.gp[t]>> ELSE <<>>

\* C3: in every scored week each team that played is a side of exactly one
\* WeeklyGame of that week (not of two games, not both sides of one), and a team
\* without an opponent that week keeps its wins, losses, PF, PA and games played.
C3_OneGamePerTeamPerWeek ==
    Aggregated =>
        /\ \A week \in DOMAIN core.weekly_games :
            \A t \in TeamsPaired(week) : Appearances(week, t) = 1
        /\ \A k \in 1..Len(weeks) :
            \A t \in Teams \ TeamsPaired(weeks[k]) :
                Totals(CoreUpTo(roster_to_team, weeks, weeks_data, k), t)
                    = Totals(CoreUpTo(roster_to_team, weeks, weeks_data, k - 1), t)

\* ---------------------------------------------------------------------- C6
\* The records of a week that belong to a group of exactly two.
OnlyPairs(g) ==
    SelectSeq(g, LAMBDA m : Cardinality({x \in 1..Len(g) : g[x].matchup_id = m.matchup_id}) = 2)

C8_NoZeroGames ==
    Aggregated =>
        /\ \A t \in Teams : core.gp[t] >= 1
        /\ Teams = UNION {TeamsPaired(week) : week \in DOMAIN weeks_data}
        /\ DOMAIN team_stats = Teams
        /\ \A t \in Teams :
            /\ team_stats[t].games >= 1
            /\ team_stats[t].sos[2] # 0 /\ team_stats[t].exp_w[2] # 0
        /\ Len(sos_luck_rows) = Cardinality(Teams) + 1
        /\ \A n \in 1..(Len(sos_luck_rows) - 1) :
            LET r == sos_luck_rows[n] IN
            /\ r.team \in Teams
            /\ core.gp[r.team] = 0 => r.sos = 0 /\ r.exp_w = 0

\* A team that is in a score snapshot but in no valid pair, next to teams that played.
C8_Witness ==
    /\ Aggregated
    /\ Teams # {}
    /\ \E week \in DOMAIN weeks_data : \E t \in TeamsIn(week) :
        /\ t \notin Teams
        /\ t \in DOMAIN allplay_pct

\* ---------------------------------------------------------------------- C9
\* The weeks that have at least one valid game, in the order of the run.
PlayedWeeks == SelectSeq(weeks, LAMBDA week : core.weekly_games[week] # <<>>)

\* C9: picks_and_pans gives one closest entry (minimum margin of the week) and
\* one blowout entry (maximum margin) per week that has a game, none for a week
\* without games; both lists have the same length and weeks, in order.
C9_ClosestAndBlowout ==
    Aggregated =>
        \A played \in {PlayedWeeks} :
        /\ Len(picks.closest) = Len(played)
        /\ Len(picks.blowouts) = Len(played)
        /\ \A n \in 1..Len(played) :
            LET games == core.weekly_games[played[n]]
                cg == picks.closest[n]
                bg == picks.blowouts[n]
            IN  /\ cg[1] = played[n] /\ bg[1] = played[n]
                /\ \E i \in 1..Len(games) : games[i] = cg[2]
                /\ \E i \in 1..Len(games) : games[i] = bg[2]
                /\ \A i \in 1..Len(games) :
                    cg[2].margin <= games[i].margin /\ bg[2].margin >= games[i].margin

\* A week whose second game is closer than its first, and a week with no game.
C9_Witness ==
    /\ Aggregated
    /\ \E k1, k2 \in DOMAIN core.weekly_games :
        /\ Len(core.weekly_games[k1]) = 2
        /\ core.weekly_games[k1][2].margin < core.weekly_games[k1][1].margin
        /\ core.weekly_games[k2] = <<>>
    /\ Len(picks.closest) = 1

\* The part of C3 that holds: a week leaves the totals of every team it does not pair untouched.
C3_IdleTeamUnchanged ==
    Aggregated =>
        \A k \in 1..Len(weeks) :
            \A t \in Teams \ TeamsPaired(weeks[k]) :
                Totals(CoreUpTo(roster_to_team, weeks, weeks_data, k), t)
                    = Totals(CoreUpTo(roster_to_team, weeks, weeks_data, k - 1), t)

\* ---------------------------------------------------------------------- C4
Failed(i) == requests[i].outcome # "ok"

\* C4: a fetch that times out or returns a non-success status ends the run
\* there: it is the last request, no URL is requested twice, and no document
\* is written; a document is written only after every fetch of the run succeeded.
C4_FailFast ==
    /\ \A i \in 1..Len(requests) :
        Failed(i) => i = Len(requests) /\ pc = "aborted" /\ documents = {}
    /\ \A i, j \in 1..Len(requests) : i < j => requests[i].url # requests[j].url
    /\ \A doc \in documents :
        /\ \A i \in 1..Len(requests) : ~Failed(i)
        /\ {requests[i].url : i \in 1..Len(requests)}
             = {<<"league">>, <<"users">>, <<"rosters">>}
                 \cup {<<"matchups", week>> : week \in doc[1]..doc[2]}

\* The matchups of the second week fail after four successful fetches.
C4_Witness ==
    /\ pc = "aborted"
    /\ Len(requests) = 5
    /\ Failed(5)
    /\ \A i \in 1..4 : ~Failed(i)
    /\ documents = {}

\* ---------------------------------------------------------------- C5, C7
\* The weeks whose snapshot has more than one team and holds t.
RecordedWeeks(ws, t) ==
    {week \in DOMAIN ws : Cardinality(DOMAIN ws[week]) > 1 /\ t \in DOMAIN ws[week]}

\* The other teams of a snapshot minus those that scored at least as much as t.
Outscored(scores, t) ==
    (Cardinality(DOMAIN scores) - 1)
        - Cardinality({o \in DOMAIN scores \ {t} : scores[o] >= scores[t]})

RECURSIVE FracSum(_, _)
FracSum(f, S) ==
    IF S = {} THEN Frac(0, 1)
    ELSE LET x == CHOOSE x \in S : TRUE IN FAdd(f[x], FracSum(f, S \ {x}))

\* The all-play average the specification describes, 0 for a team without a recorded week.
AverageAllPlay(ws, t) ==
    LET rw == RecordedWeeks(ws, t) IN
    IF rw = {} THEN Frac(0, 1)
    ELSE FDivInt(FracSum([week \in rw |->
                             Frac(Outscored(ws[week], t), Cardinality(DOMAIN ws[week]) - 1)], rw),
                 Cardinality(rw))

\* C5: compute_all_play gives every team with a recorded week (a snapshot of
\* more than one team) a value in [0, 1]: the mean, over those weeks, of the
\* share of the other teams it strictly outscored; smaller snapshots add
\* nothing and a tie is a win for neither side.
C5_AllPlayPct ==
    pc = "all_play_done" =>
        LET ws == core.weekly_scores
            all == UNION {DOMAIN ws[week] : week \in DOMAIN ws}
        IN  /\ DOMAIN allplay_pct = {t \in all : RecordedWeeks(ws, t) # {}}
            /\ \A t \in DOMAIN allplay_pct :
                /\ allplay_pct[t][2] > 0
                /\ FLe(Frac(0, 1), allplay_pct[t]) /\ FLe(allplay_pct[t], Frac(1, 1))
                /\ FEq(allplay_pct[t], AverageAllPlay(ws, t))

\* A team strictly between 0 and 1 after one recorded week, in which it tied
\* with another team, and one week in which it was the only team.
C5_Witness ==
    /\ pc = "all_play_done"
    /\ LET ws == core.weekly_scores IN
       \E t \in DOMAIN allplay_pct, k1, k2 \in DOMAIN ws :
            /\ FLt(Frac(0, 1), allplay_pct[t]) /\ FLt(allplay_pct[t], Frac(1, 1))
            /\ RecordedWeeks(ws, t) = {k1}
            /\ DOMAIN ws[k2] = {t}
            /\ \E o \in DOMAIN ws[k1] \ {t} : ws[k1][o] = ws[k1][t]

\* C7: every team row of build_sos_luck_rows has expectedWins = allPlayPct *
\* gamesPlayed and luck = wins - expectedWins, gamesPlayed being the team's valid
\* games and allPlayPct its all-play average; so 0 <= expectedWins <= gamesPlayed
\* and -gamesPlayed <= luck <= gamesPlayed. The row shows both to two decimals.
C7_ExpectedWinsAndLuck ==
    Aggregated =>
        /\ {sos_luck_rows[n].team : n \in 1..(Len(sos_luck_rows) - 1)} = Teams
        /\ \A n \in 1..(Len(sos_luck_rows) - 1) :
            \A ap \in {AverageAllPlay(core.weekly_scores, sos_luck_rows[n].team)} :
            LET r == sos_luck_rows[n]
                t == r.team
                st == team_stats[t]
                gp == core.gp[t]
            IN  /\ st.games = gp
                /\ FEq(st.ap, ap)
                /\ FEq(st.exp_w, FScale(ap, gp))
                /\ FEq(st.luck, FAdd(Frac(core.w[t], 1), FScale(st.exp_w, -1)))
                /\ FLe(Frac(0, 1), st.exp_w) /\ FLe(st.exp_w, Frac(gp, 1))
                /\ FLe(Frac(-gp, 1), st.luck) /\ FLe(st.luck, Frac(gp, 1))
                /\ r.w = core.w[t]
                /\ r.exp_w = Round(FScale(ap, gp), 2)
                /\ r.badge.luck = Round(st.luck, 2)
                /\ 0 <= r.exp_w /\ r.exp_w <= 100 * gp
                /\ -100 * gp <= r.badge.luck /\ r.badge.luck <= 100 * gp

\* A team with two games, an all-play average strictly between 0 and 1 and nonzero luck.
C7_Witness ==
    /\ Aggregated
    /\ \E t \in Teams :
        /\ core.gp[t] = 2
        /\ t \in DOMAIN allplay_pct
        /\ FLt(Frac(0, 1), allplay_pct[t]) /\ FLt(allplay_pct[t], Frac(1, 1))
        /\ team_stats[t].luck[1] # 0

\* ============================================================ specification
Next ==
    \/ FetchLeague
    \/ FetchUsers
    \/ FetchRosters
    \/ FetchMatchups
    \/ Compute
    \/ WritePdf

Spec == Init /\ [][Next]_vars

\* compute_all_play on its own, over any bounded set of weekly snapshots.
InitAllPlay ==
    /\ pc = "all_play"
    /\ requests = <<>>
    /\ league = NoValue
    /\ users = NoValue
    /\ roster_to_team = NoValue
    /\ weeks = <<>>
    /\ weeks_data = <<>>
    /\ \E k \in 0..MaxSnapshots : \E ws \in [1..k -> Snapshots] :
            core = [EmptyCore EXCEPT !.weekly_scores = ws]
    /\ allplay_pct = NoValue
    /\ team_stats = NoValue
    /\ sos_luck_rows = NoValue
    /\ picks = NoValue
    /\ documents = {}

AllPlay ==
    /\ pc = "all_play"
    /\ allplay_pct' = compute_all_play(core.weekly_scores)
    /\ pc' = "all_play_done"
    /\ UNCHANGED <<requests, loaded, core, team_stats, sos_luck_rows, picks, documents>>

NextAllPlay == AllPlay

SpecAllPlay == InitAllPlay /\ [][NextAllPlay]_vars
====
